---- MODULE Spec2Model ----
(***************************************************************************)
(* HerzMapper (src/main.rs): one run of the image -> tile-map pipeline.    *)
(*                                                                         *)
(* Text is modelled as a sequence of one-character strings, a file as the  *)
(* sequence of its lines (what str::lines() yields).  A serde_json Value   *)
(* is a record with one field that names its kind:                         *)
(*   [null |-> TRUE]  [bool |-> b]  [num |-> n]  [str |-> chars]           *)
(*   [arr |-> sequence of Values]   [obj |-> function from keys to Values] *)
(* An image is kept as its decoded buffer together with the dimensions it  *)
(* was resized to; get_pixel samples the buffer the way the Nearest filter *)
(* of image::imageops::resize does.                                        *)
(***************************************************************************)
EXTENDS Integers, Sequences, FiniteSets, TLC

VARIABLES
    pc,             \* position of run() (the statement about to execute)
    args,           \* Args: [input, freeze_map], each option as the run finds it when
                    \* it first reads it (TRUE = a path was given)
    palette_ids,    \* Vec<String>
    palette_points, \* Vec<[f64; 3]>
    kdtree,         \* KdTree<f64, 3>: the (point, item) pairs added
    img,            \* the image buffer (NoImage before it is opened)
    mapping,        \* HashMap<(u8,u8,u8), (String, (u8,u8,u8))>
    map_file,       \* the map-data file as it was read (the input document)
    map_data,       \* serde_json::Value being mutated
    tile_array,     \* Vec<Vec<usize>> of line 189
    tile_amounts,   \* Vec<Vec<i32>> of line 189
    laws,           \* the world-laws file content, lines
    out_file,       \* the file at args.output
    jpg_saved,      \* output.jpg was written
    stderr,         \* what the run printed with eprintln!
    err             \* why the run ended early ("" while it has not)

vars == <<pc, args, palette_ids, palette_points, kdtree, img, mapping, map_file,
          map_data, tile_array, tile_amounts, laws, out_file, jpg_saved, stderr, err>>

----------------------------------------------------------------------------
(* Bounds of the model *)

MaxPaletteLines == 2
MaxImgDim == 2
MaxLawLines == 2
MaxTileMapLen == 1
WideDim == 129

(* Program constants *)

Unit == 64
MinUnits == 2
NibblesU32 == 8

----------------------------------------------------------------------------
(* Generic helpers *)

Range(s) == { s[i] : i \in DOMAIN s }

SeqsUpTo(S, n) == UNION { [1..k -> S] : k \in 0..n }

Max(a, b) == IF a >= b THEN a ELSE b

None == [some |-> FALSE]
Some(v) == [some |-> TRUE, v |-> v]

(* str::split_once(' ') *)
RECURSIVE FirstSpace(_, _)
FirstSpace(s, i) ==
    IF i > Len(s) THEN 0
    ELSE IF s[i] = " " THEN i
    ELSE FirstSpace(s, i + 1)

split_once(s) ==
    LET i == FirstSpace(s, 1)
    IN  IF i = 0 THEN None
        ELSE Some([l |-> SubSeq(s, 1, i - 1), r |-> SubSeq(s, i + 1, Len(s))])

(* char::is_whitespace for the characters of the model's alphabet *)
IsWhite(c) == c \in {" ", "\t"}

(* str::trim *)
RECURSIVE trim_start(_)
trim_start(s) ==
    IF s # <<>> /\ IsWhite(Head(s)) THEN trim_start(Tail(s)) ELSE s

RECURSIVE trim_end(_)
trim_end(s) ==
    IF s # <<>> /\ IsWhite(s[Len(s)]) THEN trim_end(SubSeq(s, 1, Len(s) - 1)) ELSE s

trim(s) == trim_end(trim_start(s))

(* u8::to_ascii_lowercase for the characters of the model's alphabet *)
to_ascii_lowercase(c) ==
    CASE c = "T" -> "t"
      [] c = "R" -> "r"
      [] c = "U" -> "u"
      [] c = "E" -> "e"
      [] c = "F" -> "f"
      [] c = "I" -> "i"
      [] c = "A" -> "a"
      [] c = "B" -> "b"
      [] c = "X" -> "x"
      [] OTHER -> c

(* eq_ignore_ascii_case as a comparison that minds the case *)
eq_with_case(a, b) == a = b

(* str::eq_ignore_ascii_case *)
eq_ignore_ascii_case(a, b) ==
    /\ Len(a) = Len(b)
    /\ \A i \in 1..Len(a) : to_ascii_lowercase(a[i]) = to_ascii_lowercase(b[i])

----------------------------------------------------------------------------
(* hex_to_rgb, lines 60-68 *)

HexVal(c) ==
    CASE c = "0" -> 0  [] c = "1" -> 1  [] c = "2" -> 2  [] c = "3" -> 3
      [] c = "4" -> 4  [] c = "5" -> 5  [] c = "6" -> 6  [] c = "7" -> 7
      [] c = "8" -> 8  [] c = "9" -> 9
      [] c \in {"a", "A"} -> 10  [] c \in {"b", "B"} -> 11
      [] c \in {"c", "C"} -> 12  [] c \in {"d", "D"} -> 13
      [] c \in {"e", "E"} -> 14  [] c \in {"f", "F"} -> 15
      [] OTHER -> -1

(* str::trim_start_matches('#') *)
RECURSIVE trim_start_matches_hash(_)
trim_start_matches_hash(s) ==
    IF s # <<>> /\ Head(s) = "#" THEN trim_start_matches_hash(Tail(s)) ELSE s

(* The digits of s as numbers, or None at the first character that is no digit *)
RECURSIVE ParseDigits(_, _)
ParseDigits(s, acc) ==
    IF s = <<>> THEN Some(acc)
    ELSE IF HexVal(Head(s)) < 0 THEN None
    ELSE ParseDigits(Tail(s), Append(acc, HexVal(Head(s))))

RECURSIVE StripZeros(_)
StripZeros(d) == IF d # <<>> /\ Head(d) = 0 THEN StripZeros(Tail(d)) ELSE d

RECURSIVE PadZeros(_, _)
PadZeros(d, n) == IF Len(d) >= n THEN d ELSE PadZeros(<<0>> \o d, n)

(* u32::from_str_radix(s, 16).ok(): the value as its NibblesU32 hexadecimal *)
(* digits, most significant first; a value that needs more digits overflows *)
(* u32 and is an Err *)
from_str_radix16(s) ==
    LET body == IF s # <<>> /\ Head(s) = "+" THEN Tail(s) ELSE s
        d == ParseDigits(body, <<>>)
    IN  IF body = <<>> \/ (Len(s) = 1 /\ s[1] = "-") THEN None
        ELSE IF ~d.some THEN None
        ELSE IF Len(StripZeros(d.v)) > NibblesU32 THEN None
        ELSE Some(PadZeros(StripZeros(d.v), NibblesU32))

(* ((c >> 16) & 0xff, (c >> 8) & 0xff, c & 0xff) *)
hex_to_rgb(hex) ==
    LET c == from_str_radix16(trim_start_matches_hash(hex))
    IN  IF ~c.some THEN None
        ELSE Some(<<c.v[3] * 16 + c.v[4], c.v[5] * 16 + c.v[6], c.v[7] * 16 + c.v[8]>>)

----------------------------------------------------------------------------
(* Palette loading, lines 99-109 *)

RECURSIVE ParsePalette(_, _)
ParsePalette(lines, acc) ==
    IF lines = <<>> THEN acc
    ELSE LET sp == split_once(Head(lines))
             rgb == IF sp.some THEN hex_to_rgb(sp.v.r) ELSE None
         IN  ParsePalette(Tail(lines),
                 IF rgb.some
                 THEN [ids |-> Append(acc.ids, sp.v.l), points |-> Append(acc.points, rgb.v)]
                 ELSE acc)

PalLineBlack == <<"a", " ", "#", "0", "0", "0", "0", "0", "0">>
PalLineWhite == <<"b", " ", "#", "F", "F", "F", "F", "F", "F">>
PalLineNoSep == <<"b", "#", "F", "F">>
PalLineBadHex == <<"b", " ", "#", "G", "G">>

PaletteLines == {PalLineBlack, PalLineWhite, PalLineNoSep, PalLineBadHex}

PaletteFiles == SeqsUpTo(PaletteLines, MaxPaletteLines)

----------------------------------------------------------------------------
(* Images *)

NoImage == [width |-> 0, height |-> 0, buf_w |-> 0, buf_h |-> 0, buf |-> <<>>]

Dark == <<10, 10, 10>>
White == <<255, 255, 255>>
Black == <<0, 0, 0>>

(* The decoded images the model reads: every pixel Dark or White, in one of *)
(* four patterns (solid, vertical stripes, horizontal stripes, checkerboard) *)
ImgWidths == 1..MaxImgDim
ImgHeights == {1, 2}

PatternPixel(a, b, x, y) == IF (a * x + b * y) % 2 = 0 THEN Dark ELSE White

DecodedImage(w, h, a, b) ==
    [width |-> w, height |-> h, buf_w |-> w, buf_h |-> h,
     buf |-> [p \in (0..(w - 1)) \X (0..(h - 1)) |-> PatternPixel(a, b, p[1], p[2])]]

(* The wide images (more than two units across) have no vertical stripes *)
DecodedImages ==
    { DecodedImage(w, h, a, b) : w \in ImgWidths, h \in ImgHeights, a \in {0, 1}, b \in {0, 1} }
      \cup { DecodedImage(WideDim, h, 0, b) : h \in ImgHeights, b \in {0, 1} }

(* The freeze maps the model reads: one row of two pixels *)
FreezeImages ==
    { [width |-> 2, height |-> 1, buf_w |-> 2, buf_h |-> 1,
       buf |-> [p \in (0..1) \X (0..0) |-> IF p[1] = 0 THEN Black ELSE c1]] :
      c1 \in {Black, White} }

(* The source coordinate the Nearest filter samples for output coordinate o *)
(* when old pixels are resized to new: floor((o + 0.5) * old / new)         *)
SrcCoord(o, old, new) ==
    LET i == ((2 * o + 1) * old) \div (2 * new)
    IN  IF i > old - 1 THEN old - 1 ELSE i

(* ImageBuffer::get_pixel *)
get_pixel(im, x, y) ==
    im.buf[<<SrcCoord(x, im.buf_w, im.width), SrcCoord(y, im.buf_h, im.height)>>]

(* resize_to_nearest_64, lines 52-57 *)
NewDim(d) == Max((d + (Unit - 1)) \div Unit, MinUnits) * Unit

resize_to_nearest_64(im) ==
    [im EXCEPT !.width = NewDim(im.width), !.height = NewDim(im.height)]

(* The buffer columns and rows that the pixels of the resized image sample *)
SampledCols(im) == { SrcCoord(x, im.buf_w, im.width) : x \in 0..(im.width - 1) }
SampledRows(im) == { SrcCoord(y, im.buf_h, im.height) : y \in 0..(im.height - 1) }

(* img.pixels().map(..).collect::<HashSet<_>>(), line 129: the colors of all *)
(* pixels (x, y), which are the buffer's colors at the sampled columns and   *)
(* rows                                                                      *)
UniqueColors(im) ==
    { im.buf[<<sx, sy>>] : sx \in SampledCols(im), sy \in SampledRows(im) }

----------------------------------------------------------------------------
(* Palette index and quantizer, lines 112-115 and 132-139 *)

SqDist(p, q) ==
    (p[1] - q[1]) * (p[1] - q[1]) + (p[2] - q[2]) * (p[2] - q[2])
      + (p[3] - q[3]) * (p[3] - q[3])

BuildTree(points) == [i \in 1..Len(points) |-> [point |-> points[i], item |-> i - 1]]

(* KdTree::nearest_one::<SquaredEuclidean>: the item of a point at the least *)
(* distance.  The palettes of the model fit one leaf bucket, which is        *)
(* scanned in insertion order with a strict comparison, so the first of      *)
(* several equidistant points wins.  On an empty tree the item is 0.         *)
nearest_one(tree, query) ==
    IF tree = <<>> THEN 0
    ELSE LET best == CHOOSE i \in 1..Len(tree) :
                 /\ \A j \in 1..Len(tree) :
                        SqDist(tree[i].point, query) <= SqDist(tree[j].point, query)
                 /\ \A j \in 1..(i - 1) :
                        SqDist(tree[j].point, query) > SqDist(tree[i].point, query)
         IN  tree[best].item

(* The closure of lines 132-139 for one color: (palette id, palette color) *)
Resolve(tree, ids, points, col) ==
    LET idx == nearest_one(tree, col)
    IN  [id |-> ids[idx + 1], new |-> points[idx + 1]]

(* Lines 142-149: every pixel whose color is a key of the mapping is replaced *)
Rewrite(im, m) ==
    [im EXCEPT !.buf = [p \in DOMAIN im.buf |->
        IF im.buf[p] \in DOMAIN m THEN m[im.buf[p]].new ELSE im.buf[p]]]

----------------------------------------------------------------------------
(* serde_json::Value *)

(* The value of map_file before the file is read *)
NotRead == [unread |-> TRUE]

JNull == [null |-> TRUE]
JBool(b) == [bool |-> b]
JNum(n) == [num |-> n]
JStr(s) == [str |-> s]
JArr(s) == [arr |-> s]
JObj(f) == [obj |-> f]

NoKeys == [k \in {} |-> JNull]

IsObj(v) == "obj" \in DOMAIN v
IsArr(v) == "arr" \in DOMAIN v
IsStr(v) == "str" \in DOMAIN v
IsNum(v) == "num" \in DOMAIN v
IsNull(v) == "null" \in DOMAIN v

HasKey(v, k) == IsObj(v) /\ k \in DOMAIN v.obj

(* Value::get(key) *)
Get(v, k) == IF HasKey(v, k) THEN Some(v.obj[k]) ELSE None

(* v[key] read (Index): Null for a missing key or a Value that is no object *)
Index(v, k) == IF HasKey(v, k) THEN v.obj[k] ELSE JNull

(* v[key] = x (IndexMut): Null becomes an object; a Value that is neither *)
(* Null nor an object panics (None)                                      *)
IndexSet(v, k, x) ==
    IF IsNull(v) THEN Some(JObj((k :> x)))
    ELSE IF IsObj(v) THEN Some(JObj((k :> x) @@ v.obj))
    ELSE None

----------------------------------------------------------------------------
(* Input documents and world-laws files of the model *)

IdA == <<"a">>

TileMapEntries == {JStr(IdA), JNum(7)}

TileMapFields ==
    {NoKeys, ("tileMap" :> JStr(<<"x">>))}
      \cup { ("tileMap" :> JArr(t)) : t \in SeqsUpTo(TileMapEntries, MaxTileMapLen) }

OldLaw == JObj(("name" :> JStr(<<"O", "l", "d">>)))

PlainFields ==
    ("worldLaws" :> JObj(("other" :> JNum(1))))
      @@ ("frozen_tiles" :> JArr(<<JNum(5)>>)) @@ ("seed" :> JNum(3))

OtherFields ==
    { PlainFields,
      ("worldLaws" :> JObj(("list" :> JArr(<<OldLaw>>)) @@ ("other" :> JNum(1)))),
      ("worldLaws" :> JObj(("list" :> JNum(3)) @@ ("other" :> JNum(1)))) }

(* The documents that differ in tileMap only, and two without any field read *)
TileDocs == { JObj(t @@ PlainFields) : t \in TileMapFields } \cup {JObj(NoKeys), JNum(3)}

(* The documents that differ in the other fields as well *)
Docs == { JObj(t @@ o) : t \in TileMapFields, o \in OtherFields } \cup TileDocs

LawFireTrue == <<"F", "i", "r", "e", " ", "t", "r", "u", "e">>
LawFireUpper == <<"F", "i", "r", "e", " ", "T", "r", "U", "E">>
LawFireFalse == <<"F", "i", "r", "e", " ", "f", "a", "l", "s", "e">>
LawNoSpace == <<"I", "c", "e">>
LawPadded == <<"\t", "i", "c", "e", " ", " ", "t", "r", "u", "e", "\t">>
LawExtra == <<"I", "c", "e", " ", "t", "r", "u", "e", " ", "x">>

LawLines == {LawFireTrue, LawFireUpper, LawFireFalse, LawNoSpace, LawPadded, LawExtra}

LawFiles == SeqsUpTo(LawLines, MaxLawLines)

----------------------------------------------------------------------------
(* tileMap update, lines 163-169 *)

(* The orders in which a HashSet of ids can be iterated *)
Orders(S) == { o \in [1..Cardinality(S) -> S] : Range(o) = S }

MappingIds(m) == { m[c].id : c \in DOMAIN m }

RECURSIVE JStrings(_)
JStrings(ids) == IF ids = <<>> THEN <<>> ELSE <<JStr(Head(ids))>> \o JStrings(Tail(ids))

PushIds(doc, order) ==
    JObj(("tileMap" :> JArr(doc.obj["tileMap"].arr \o JStrings(order))) @@ doc.obj)

HasTileMapArray(doc) == HasKey(doc, "tileMap") /\ IsArr(doc.obj["tileMap"])

----------------------------------------------------------------------------
(* Run-length encoder, lines 173-206 *)

(* .filter_map(|v| v.as_str().map(..)), lines 174-179 *)
RECURSIVE FilterStrs(_)
FilterStrs(a) ==
    IF a = <<>> THEN <<>>
    ELSE IF IsStr(Head(a)) THEN <<Head(a).str>> \o FilterStrs(Tail(a))
    ELSE FilterStrs(Tail(a))

(* lines 180-184: collecting (id, i) pairs into a HashMap keeps the last i *)
Pidx(tmap) ==
    [id \in Range(tmap) |->
        (CHOOSE i \in 1..Len(tmap) :
            tmap[i] = id /\ \A j \in (i + 1)..Len(tmap) : tmap[j] # id) - 1]

(* lines 185-188: one id per replacement color; when several entries of the *)
(* mapping share a color, the one inserted last (in the HashMap's iteration *)
(* order) stays                                                             *)
RgbToIds(m) ==
    LET cols == { m[c].new : c \in DOMAIN m }
    IN  { f \in [cols -> MappingIds(m)] :
            \A col \in cols : \E c \in DOMAIN m : m[c].new = col /\ m[c].id = f[col] }

NoRuns == [tiles |-> <<>>, counts |-> <<>>, panic |-> ""]

(* ExtendRun without the increment of line 198 *)
ExtendRunNoIncrement(acc) == acc

ExtendRun(acc) ==
    [acc EXCEPT !.counts[Len(acc.counts)] = @ + 1]

StartRun(acc, idx) ==
    [acc EXCEPT !.tiles = Append(@, idx), !.counts = Append(@, 1)]

(* lines 197-202 *)
PushTile(acc, idx) ==
    IF acc.tiles # <<>> /\ acc.tiles[Len(acc.tiles)] = idx
    THEN ExtendRun(acc)
    ELSE StartRun(acc, idx)

(* lines 192-196: the pixel's color, then its id, then the id's index *)
LookupTile(acc, tuple, pidx, rgb_to_id) ==
    IF tuple \notin DOMAIN rgb_to_id
    THEN [acc EXCEPT !.panic = "Color not found"]
    ELSE IF rgb_to_id[tuple] \notin DOMAIN pidx
    THEN [acc EXCEPT !.panic = "ID not in palette index"]
    ELSE PushTile(acc, pidx[rgb_to_id[tuple]])

(* The closure of lines 191-204: one pixel folded into the accumulator *)
FoldStep(im, y, x, acc, pidx, rgb_to_id) ==
    LookupTile(acc, get_pixel(im, x, y), pidx, rgb_to_id)

(* (lo..hi).fold(acc, ..) over the columns of row y, left to right.  The *)
(* range is halved and the left half is folded before the right half is *)
(* entered, which keeps the evaluation shallow; a panic ends the fold    *)
RECURSIVE FoldRow(_, _, _, _, _, _, _)
FoldRest(im, y, lo, hi, left, pidx, rgb_to_id) ==
    IF left.panic # "" THEN left
    ELSE FoldRow(im, y, lo, hi, left, pidx, rgb_to_id)

FoldRow(im, y, lo, hi, acc, pidx, rgb_to_id) ==
    IF lo > hi THEN acc
    ELSE IF lo = hi THEN FoldStep(im, y, lo, acc, pidx, rgb_to_id)
    ELSE FoldRest(im, y, (lo + hi) \div 2 + 1, hi,
                  FoldRow(im, y, lo, (lo + hi) \div 2, acc, pidx, rgb_to_id),
                  pidx, rgb_to_id)

(* The fold of one row of the image that samples buffer row sy (NoRuns *)
(* when no row samples it), for sy, sy + 1, ..                         *)
RECURSIVE FoldsByBufRow(_, _, _, _)
FoldsByBufRow(im, sy, pidx, rgb_to_id) ==
    IF sy >= im.buf_h THEN <<>>
    ELSE <<IF sy \in SampledRows(im)
           THEN FoldRow(im,
                    CHOOSE y \in 0..(im.height - 1) : SrcCoord(y, im.buf_h, im.height) = sy,
                    0, im.width - 1, NoRuns, pidx, rgb_to_id)
           ELSE NoRuns>> \o FoldsByBufRow(im, sy + 1, pidx, rgb_to_id)

(* RowsOf without the .rev() of line 189: the top row first *)
RowsOfTopDown(im, folds) ==
    [k \in 1..im.height |-> folds[SrcCoord(k - 1, im.buf_h, im.height) + 1]]

RowsOf(im, folds) ==
    [k \in 1..im.height |-> folds[SrcCoord(im.height - k, im.buf_h, im.height) + 1]]

(* (0..h).rev().map(..): element k is the fold of row h - k.  The fold of *)
(* a row reads only that row's pixels, and rows that sample the same      *)
(* buffer row hold the same pixels: the fold is evaluated once for each   *)
(* buffer row and shared by the rows that sample it                       *)
EncodeRows(im, pidx, rgb_to_id) == RowsOf(im, FoldsByBufRow(im, 0, pidx, rgb_to_id))

(* .unzip(), line 206, or the first panic of the folds *)
Unzip(rows) ==
    IF \E k \in DOMAIN rows : rows[k].panic # ""
    THEN [panic |-> rows[CHOOSE k \in DOMAIN rows :
                            rows[k].panic # "" /\ \A j \in 1..(k - 1) : rows[j].panic = ""].panic,
          tiles |-> <<>>, counts |-> <<>>]
    ELSE [panic |-> "",
          tiles |-> [k \in DOMAIN rows |-> rows[k].tiles],
          counts |-> [k \in DOMAIN rows |-> rows[k].counts]]

(* json!(Vec<Vec<_>>) *)
JRows(rows) == JArr([k \in 1..Len(rows) |-> JArr([i \in 1..Len(rows[k]) |-> JNum(rows[k][i])])])

----------------------------------------------------------------------------
(* World laws, lines 215-237 *)

HasLawList(doc) ==
    /\ HasKey(doc, "worldLaws")
    /\ HasKey(doc.obj["worldLaws"], "list")
    /\ IsArr(doc.obj["worldLaws"].obj["list"])

(* The closure of lines 229-236 *)
LawRecord(k, v) ==
    IF eq_ignore_ascii_case(trim(v), <<"t", "r", "u", "e">>)
    THEN JObj(("name" :> JStr(trim(k))))
    ELSE JObj(("name" :> JStr(trim(k))) @@ ("boolVal" :> JBool(FALSE)))

RECURSIVE LawRecords(_)
LawRecords(lines) ==
    IF lines = <<>> THEN <<>>
    ELSE LET sp == split_once(Head(lines))
         IN  (IF sp.some THEN <<LawRecord(sp.v.l, sp.v.r)>> ELSE <<>>)
               \o LawRecords(Tail(lines))

(* lines 215-224: the list to extend; a document without an array at *)
(* worldLaws.list gets worldLaws replaced by { "list": [] }          *)
WithLawList(doc) ==
    IF HasLawList(doc) THEN Some(doc)
    ELSE IndexSet(doc, "worldLaws", JObj(("list" :> JArr(<<>>))))

ExtendLaws(doc, lines) ==
    LET wl == doc.obj["worldLaws"]
        list == wl.obj["list"].arr \o LawRecords(lines)
    IN  JObj(("worldLaws" :> JObj(("list" :> JArr(list)) @@ wl.obj)) @@ doc.obj)

----------------------------------------------------------------------------
(* Freeze map, lines 246-253 *)

(* The indices i, ascending, of the pixels that are pure white *)
RECURSIVE FrozenTiles(_, _, _)
FrozenTiles(im, lo, hi) ==
    IF lo > hi THEN <<>>
    ELSE IF lo = hi
    THEN IF get_pixel(im, lo % im.width, lo \div im.width) = White THEN <<JNum(lo)>> ELSE <<>>
    ELSE LET mid == (lo + hi) \div 2
         IN  FrozenTiles(im, lo, mid) \o FrozenTiles(im, mid + 1, hi)

----------------------------------------------------------------------------
(* run(), lines 93-270, statement by statement *)

Init ==
    /\ pc = "load_palette"
    /\ args = [input |-> "unread", freeze_map |-> "unread"]
    /\ palette_ids = <<>>
    /\ palette_points = <<>>
    /\ kdtree = <<>>
    /\ img = NoImage
    /\ mapping = <<>>
    /\ map_file = NotRead
    /\ map_data = JNull
    /\ tile_array = <<>>
    /\ tile_amounts = <<>>
    /\ laws = <<>>
    /\ out_file = "untouched"
    /\ jpg_saved = FALSE
    /\ stderr = <<>>
    /\ err = ""

(* `?` on an Err: run returns it *)
Fail(msg) == pc' = "error" /\ err' = msg

(* unwrap/expect on None or Err, or an index out of bounds: the run panics *)
Panic(msg) == pc' = "panic" /\ err' = msg

Goto(l) == pc' = l /\ err' = err

(* lines 99-109 *)
LoadPalette(files) ==
    /\ pc = "load_palette"
    /\ \E f \in files :
          LET p == ParsePalette(f, [ids |-> <<>>, points |-> <<>>])
          IN  palette_ids' = p.ids /\ palette_points' = p.points
    /\ Goto("build_index")
    /\ UNCHANGED <<args, kdtree, img, mapping, map_file, map_data, tile_array,
                   tile_amounts, laws, out_file, jpg_saved, stderr>>

LoadPaletteFail ==
    /\ pc = "load_palette"
    /\ Fail("Failed to read palette file")
    /\ UNCHANGED <<args, palette_ids, palette_points, kdtree, img, mapping, map_file,
                   map_data, tile_array, tile_amounts, laws, out_file, jpg_saved, stderr>>

(* lines 112-115 *)
BuildIndex ==
    /\ pc = "build_index"
    /\ kdtree' = BuildTree(palette_points)
    /\ Goto("input_path")
    /\ UNCHANGED <<args, palette_ids, palette_points, img, mapping, map_file, map_data,
                   tile_array, tile_amounts, laws, out_file, jpg_saved, stderr>>

(* line 119 *)
InputPath ==
    /\ pc = "input_path"
    /\ \E given \in BOOLEAN :
          /\ args' = [args EXCEPT !.input = given]
          /\ IF given THEN Goto("open_image") ELSE Fail("No input file provided")
    /\ UNCHANGED <<palette_ids, palette_points, kdtree, img, mapping, map_file,
                   map_data, tile_array, tile_amounts, laws, out_file, jpg_saved, stderr>>

(* lines 121-124 *)
OpenImage(images) ==
    /\ pc = "open_image"
    /\ \E im \in images : img' = im
    /\ Goto("resize")
    /\ UNCHANGED <<args, palette_ids, palette_points, kdtree, mapping, map_file, map_data,
                   tile_array, tile_amounts, laws, out_file, jpg_saved, stderr>>

OpenImageFail ==
    /\ pc = "open_image"
    /\ Fail("image open/decode error")
    /\ UNCHANGED <<args, palette_ids, palette_points, kdtree, img, mapping, map_file,
                   map_data, tile_array, tile_amounts, laws, out_file, jpg_saved, stderr>>

(* line 126 *)
Resize ==
    /\ pc = "resize"
    /\ img' = resize_to_nearest_64(img)
    /\ Goto("quantize")
    /\ UNCHANGED <<args, palette_ids, palette_points, kdtree, mapping, map_file, map_data,
                   tile_array, tile_amounts, laws, out_file, jpg_saved, stderr>>

(* lines 129-139; palette_points[idx] is out of bounds when the palette is empty *)
Quantize ==
    /\ pc = "quantize"
    /\ IF palette_points = <<>>
       THEN /\ Panic("index out of bounds")
            /\ mapping' = mapping
       ELSE /\ mapping' = [c \in UniqueColors(img) |->
                              Resolve(kdtree, palette_ids, palette_points, c)]
            /\ Goto("rewrite")
    /\ UNCHANGED <<args, palette_ids, palette_points, kdtree, img, map_file, map_data,
                   tile_array, tile_amounts, laws, out_file, jpg_saved, stderr>>

(* lines 142-149 *)
RewritePixels ==
    /\ pc = "rewrite"
    /\ img' = Rewrite(img, mapping)
    /\ Goto("save_jpg")
    /\ UNCHANGED <<args, palette_ids, palette_points, kdtree, mapping, map_file, map_data,
                   tile_array, tile_amounts, laws, out_file, jpg_saved, stderr>>

(* line 153 *)
SaveJpg ==
    /\ pc = "save_jpg"
    /\ jpg_saved' = TRUE
    /\ Goto("read_map")
    /\ UNCHANGED <<args, palette_ids, palette_points, kdtree, img, mapping, map_file,
                   map_data, tile_array, tile_amounts, laws, out_file, stderr>>

SaveJpgFail ==
    /\ pc = "save_jpg"
    /\ Panic("Failed to save output.jpg")
    /\ UNCHANGED <<args, palette_ids, palette_points, kdtree, img, mapping, map_file,
                   map_data, tile_array, tile_amounts, laws, out_file, jpg_saved, stderr>>

(* lines 157-160 *)
ReadMapData(docs) ==
    /\ pc = "read_map"
    /\ \E d \in docs : map_file' = d /\ map_data' = d
    /\ Goto("tile_map")
    /\ UNCHANGED <<args, palette_ids, palette_points, kdtree, img, mapping, tile_array,
                   tile_amounts, laws, out_file, jpg_saved, stderr>>

ReadMapDataFail ==
    /\ pc = "read_map"
    /\ \E msg \in {"Failed to read map data file", "JSON parse error"} : Fail(msg)
    /\ UNCHANGED <<args, palette_ids, palette_points, kdtree, img, mapping, map_file,
                   map_data, tile_array, tile_amounts, laws, out_file, jpg_saved, stderr>>

(* lines 163-169 *)
TileMapStep ==
    /\ pc = "tile_map"
    /\ IF HasTileMapArray(map_data)
       THEN /\ \E order \in Orders(MappingIds(mapping)) : map_data' = PushIds(map_data, order)
            /\ stderr' = stderr
       ELSE /\ stderr' = Append(stderr, "tileMap array not found in JSON")
            /\ map_data' = map_data
    /\ Goto("encode")
    /\ UNCHANGED <<args, palette_ids, palette_points, kdtree, img, mapping, map_file,
                   tile_array, tile_amounts, laws, out_file, jpg_saved>>

(* lines 173-206 *)
Encode ==
    /\ pc = "encode"
    /\ IF ~IsArr(Index(map_data, "tileMap"))
       THEN /\ Panic("unwrap on a None value")
            /\ UNCHANGED <<tile_array, tile_amounts>>
       ELSE \E rgb_to_id \in RgbToIds(mapping) :
            \E res \in {Unzip(EncodeRows(img,
                           Pidx(FilterStrs(Index(map_data, "tileMap").arr)), rgb_to_id))} :
              IF res.panic # ""
              THEN /\ Panic(res.panic)
                   /\ UNCHANGED <<tile_array, tile_amounts>>
              ELSE /\ tile_array' = res.tiles
                   /\ tile_amounts' = res.counts
                   /\ Goto("set_fields")
    /\ UNCHANGED <<args, palette_ids, palette_points, kdtree, img, mapping, map_file,
                   map_data, laws, out_file, jpg_saved, stderr>>

(* lines 208-211 *)
SetAll(doc, h, w, ta, tm) ==
    LET d1 == IndexSet(doc, "height", JNum(h))
        d2 == IndexSet(d1.v, "width", JNum(w))
        d3 == IndexSet(d2.v, "tileArray", ta)
    IN  IF ~d1.some THEN None ELSE IndexSet(d3.v, "tileAmounts", tm)

SetFields ==
    /\ pc = "set_fields"
    /\ LET d == SetAll(map_data, img.height \div Unit, img.width \div Unit,
                       JRows(tile_array), JRows(tile_amounts))
       IN  IF d.some
           THEN map_data' = d.v /\ Goto("read_laws")
           ELSE map_data' = map_data /\ Panic("cannot access key in JSON value")
    /\ UNCHANGED <<args, palette_ids, palette_points, kdtree, img, mapping, map_file,
                   tile_array, tile_amounts, laws, out_file, jpg_saved, stderr>>

(* line 214 *)
ReadLaws(files) ==
    /\ pc = "read_laws"
    /\ \E f \in files : laws' = f
    /\ Goto("append_laws")
    /\ UNCHANGED <<args, palette_ids, palette_points, kdtree, img, mapping, map_file,
                   map_data, tile_array, tile_amounts, out_file, jpg_saved, stderr>>

ReadLawsFail ==
    /\ pc = "read_laws"
    /\ Fail("world laws read error")
    /\ UNCHANGED <<args, palette_ids, palette_points, kdtree, img, mapping, map_file,
                   map_data, tile_array, tile_amounts, laws, out_file, jpg_saved, stderr>>

(* lines 215-237 *)
AppendLaws ==
    /\ pc = "append_laws"
    /\ LET d == WithLawList(map_data)
       IN  IF d.some
           THEN map_data' = ExtendLaws(d.v, laws) /\ Goto("freeze")
           ELSE map_data' = map_data /\ Panic("cannot access key in JSON value")
    /\ UNCHANGED <<args, palette_ids, palette_points, kdtree, img, mapping, map_file,
                   tile_array, tile_amounts, laws, out_file, jpg_saved, stderr>>

(* lines 241-255 *)
Freeze ==
    /\ pc = "freeze"
    /\ \E given \in BOOLEAN :
          /\ args' = [args EXCEPT !.freeze_map = given]
          /\ IF given
             THEN \E fim \in FreezeImages :
                    LET d == IndexSet(map_data, "frozen_tiles",
                                      JArr(FrozenTiles(fim, 0, fim.width * fim.height - 1)))
                    IN  IF d.some
                        THEN map_data' = d.v /\ Goto("create")
                        ELSE map_data' = map_data /\ Panic("cannot access key in JSON value")
             ELSE map_data' = map_data /\ Goto("create")
    /\ UNCHANGED <<palette_ids, palette_points, kdtree, img, mapping, map_file,
                   tile_array, tile_amounts, laws, out_file, jpg_saved, stderr>>

FreezeFail ==
    /\ pc = "freeze"
    /\ args' = [args EXCEPT !.freeze_map = TRUE]
    /\ Fail("Failed to open freeze map")
    /\ UNCHANGED <<palette_ids, palette_points, kdtree, img, mapping, map_file,
                   map_data, tile_array, tile_amounts, laws, out_file, jpg_saved, stderr>>

(* lines 258-263 and compress_to_wbox, lines 71-77 *)

(* File::create(output_path)?, line 72: the file is created, or truncated *)
CreateOutput ==
    /\ pc = "create"
    /\ out_file' = "empty"
    /\ Goto("write_all")
    /\ UNCHANGED <<args, palette_ids, palette_points, kdtree, img, mapping, map_file,
                   map_data, tile_array, tile_amounts, laws, jpg_saved, stderr>>

CreateOutputFail ==
    /\ pc = "create"
    /\ Fail("Failed to compress output: create")
    /\ UNCHANGED <<args, palette_ids, palette_points, kdtree, img, mapping, map_file,
                   map_data, tile_array, tile_amounts, laws, out_file, jpg_saved, stderr>>

(* encoder.write_all(..)?, line 74: compressed bytes reach the file as the *)
(* encoder's buffer fills                                                  *)
WriteAll ==
    /\ pc = "write_all"
    /\ out_file' \in {"empty", "partial"}
    /\ Goto("finish")
    /\ UNCHANGED <<args, palette_ids, palette_points, kdtree, img, mapping, map_file,
                   map_data, tile_array, tile_amounts, laws, jpg_saved, stderr>>

WriteAllFail ==
    /\ pc = "write_all"
    /\ out_file' \in {"empty", "partial"}
    /\ Fail("Failed to compress output: write_all")
    /\ UNCHANGED <<args, palette_ids, palette_points, kdtree, img, mapping, map_file,
                   map_data, tile_array, tile_amounts, laws, jpg_saved, stderr>>

(* encoder.finish()?, line 75 *)
Finish ==
    /\ pc = "finish"
    /\ out_file' = "complete"
    /\ Goto("done")
    /\ UNCHANGED <<args, palette_ids, palette_points, kdtree, img, mapping, map_file,
                   map_data, tile_array, tile_amounts, laws, jpg_saved, stderr>>

FinishFail ==
    /\ pc = "finish"
    /\ out_file' = "partial"
    /\ Fail("Failed to compress output: finish")
    /\ UNCHANGED <<args, palette_ids, palette_points, kdtree, img, mapping, map_file,
                   map_data, tile_array, tile_amounts, laws, jpg_saved, stderr>>

(* The run with its inputs drawn from the given sets *)
Run(palettes, images, docs, lawfiles) ==
    \/ LoadPalette(palettes)
    \/ LoadPaletteFail
    \/ BuildIndex
    \/ InputPath
    \/ OpenImage(images)
    \/ OpenImageFail
    \/ Resize
    \/ Quantize
    \/ RewritePixels
    \/ SaveJpg
    \/ SaveJpgFail
    \/ ReadMapData(docs)
    \/ ReadMapDataFail
    \/ TileMapStep
    \/ Encode
    \/ SetFields
    \/ ReadLaws(lawfiles)
    \/ ReadLawsFail
    \/ AppendLaws
    \/ Freeze
    \/ FreezeFail
    \/ CreateOutput
    \/ CreateOutputFail
    \/ WriteAll
    \/ WriteAllFail
    \/ Finish
    \/ FinishFail

(* The run over every palette, image and tileMap of the model *)
Next == Run(PaletteFiles, DecodedImages, TileDocs, {<<LawFireUpper, LawFireFalse>>})

Spec == Init /\ [][Next]_vars

(* The run over every document and world-laws file of the model *)
NextLaws ==
    Run({<<PalLineBlack, PalLineWhite>>}, {DecodedImage(1, 1, 0, 0), DecodedImage(2, 2, 1, 1)},
        Docs, LawFiles)

SpecLaws == Init /\ [][NextLaws]_vars

----------------------------------------------------------------------------
(* Properties *)

RECURSIVE SumSeq(_)
SumSeq(q) == IF q = <<>> THEN 0 ELSE Head(q) + SumSeq(Tail(q))

Encoded == pc \in {"set_fields", "read_laws", "append_laws", "freeze", "create",
                   "write_all", "finish", "done"}

(* C1: once the encoder has run, it has emitted one list of tile indices   *)
(* and one list of run lengths for each of the h rows of the normalized    *)
(* image; for every row the two lists have the same length, every run      *)
(* length is at least 1 and the run lengths add up to the width w, so that *)
(* no run reaches into another row.                                        *)
C1_RowRunLengths ==
    Encoded =>
        /\ Len(tile_array) = img.height
        /\ Len(tile_amounts) = img.height
        /\ \A k \in 1..img.height :
              /\ Len(tile_array[k]) = Len(tile_amounts[k])
              /\ \A i \in 1..Len(tile_amounts[k]) : tile_amounts[k][i] >= 1
              /\ SumSeq(tile_amounts[k]) = img.width

(* The encoder has run on an image one of whose rows has several runs and *)
(* a run longer than one pixel                                            *)
C1_Witness ==
    /\ pc = "set_fields"
    /\ \E k \in 1..Len(tile_amounts) :
          Len(tile_amounts[k]) >= 2 /\ \E i \in 1..Len(tile_amounts[k]) : tile_amounts[k][i] >= 2

(* A Value that holds rows of numbers, n rows *)
IsRows(v, n) ==
    /\ IsArr(v)
    /\ Len(v.arr) = n
    /\ \A k \in 1..n : IsArr(v.arr[k]) /\ \A i \in 1..Len(v.arr[k].arr) : IsNum(v.arr[k].arr[i])

IsNums(v) == IsArr(v) /\ \A i \in 1..Len(v.arr) : IsNum(v.arr[i])

NumsOf(v) == [i \in 1..Len(v.arr) |-> v.arr[i].num]

RECURSIVE Flatten(_)
Flatten(rows) == IF rows = <<>> THEN <<>> ELSE Head(rows) \o Flatten(Tail(rows))

(* The palette ids that quantization resolved for the pixels that now have *)
(* color c                                                                 *)
PixelIds(c) == { mapping[k].id : k \in { k \in DOMAIN mapping : mapping[k].new = c } }

(* Row y of the image, left to right, as the ids resolved for its pixels *)
IdRow(y) == [x \in 1..img.width |-> PixelIds(get_pixel(img, x - 1, y))]

(* The buffer row that the k-th row in traversal order, row h - k, samples; *)
(* get_pixel reads a row through this coordinate only, so rows that sample  *)
(* the same buffer row hold the same pixels                                 *)
BufRowOf(k) == SrcCoord(img.height - k, img.buf_h, img.height)

ARowSampling(sy) ==
    CHOOSE y \in 0..(img.height - 1) : SrcCoord(y, img.buf_h, img.height) = sy

(* The rows of the document's tileArray and tileAmounts, each with the *)
(* buffer row its image row samples (equal rows are checked once)      *)
DocRows(ta, tm) ==
    { <<NumsOf(ta.arr[k]), NumsOf(tm.arr[k]), BufRowOf(k)>> : k \in 1..img.height }

(* Run expansion: for every pixel of a row, the number of the run it is in *)
RECURSIVE RunIndex(_, _)
RunIndex(counts, j) ==
    IF j > Len(counts) THEN <<>>
    ELSE [i \in 1..counts[j] |-> j] \o RunIndex(counts, j + 1)

(* tiles, expanded by run (run[x] is the run of pixel x), names for every *)
(* pixel an entry of ids that holds the pixel's id, and neighbouring runs *)
(* differ in their tile                                                   *)
RunsDecode(tiles, run, idrow, ids) ==
    /\ Len(run) = Len(idrow)
    /\ \A x \in 1..Len(idrow) :
          /\ run[x] \in 1..Len(tiles)
          /\ tiles[run[x]] + 1 \in 1..Len(ids)
          /\ ids[tiles[run[x]] + 1] \in idrow[x]
    /\ \A j \in 1..(Len(tiles) - 1) : tiles[j] # tiles[j + 1]

RowIsRuns(tiles, counts, idrow, ids) ==
    /\ Len(tiles) = Len(counts)
    /\ \A j \in 1..Len(counts) : counts[j] >= 1
    /\ RunsDecode(tiles, RunIndex(counts, 1), idrow, ids)

TileMapDecodes(tiles, run, idrow, tile_map) ==
    /\ Len(run) = Len(idrow)
    /\ \A x \in 1..Len(idrow) :
          /\ tiles[run[x]] + 1 \in 1..Len(tile_map)
          /\ \E id \in idrow[x] : tile_map[tiles[run[x]] + 1] = JStr(id)

(* C3: with a tileMap array in the input document, the run expansion of  *)
(* the emitted tileArray/tileAmounts, read as rows from the bottom row   *)
(* to the top row, gives for every pixel a valid position of the output  *)
(* document's tileMap, and the entry there is the palette id resolved    *)
(* for that pixel.                                                       *)
C3_DecodesToTileMap ==
    (pc = "done" /\ HasTileMapArray(map_file)) =>
        \A t \in DocRows(Index(map_data, "tileArray"), Index(map_data, "tileAmounts")) :
            TileMapDecodes(t[1], RunIndex(t[2], 1), IdRow(ARowSampling(t[3])),
                           Index(map_data, "tileMap").arr)

Count(v, q) == Cardinality({ i \in 1..Len(q) : q[i] = v })

IsPrefix(p, q) == Len(p) <= Len(q) /\ SubSeq(q, 1, Len(p)) = p

TileMapUpdated == pc = "encode" \/ Encoded

(* C4: with a tileMap array in the input document, the old array is a   *)
(* prefix of the output tileMap and no resolved id is in the output     *)
(* tileMap more often than it was before the run, or once if it is new. *)
C4_AppendedOnce ==
    (TileMapUpdated /\ HasTileMapArray(map_file)) =>
        /\ IsPrefix(map_file.obj["tileMap"].arr, Index(map_data, "tileMap").arr)
        /\ \A id \in MappingIds(mapping) :
              Count(JStr(id), Index(map_data, "tileMap").arr)
                <= Max(Count(JStr(id), map_file.obj["tileMap"].arr), 1)

(* C5: without a tileMap array in the input document the run warns, does *)
(* not create or change tileMap, and does not abort but goes on.         *)
C5_WarnsAndGoesOn ==
    (map_file # NotRead /\ ~HasTileMapArray(map_file) /\ pc # "tile_map") =>
        /\ "tileMap array not found in JSON" \in Range(stderr)
        /\ HasKey(map_data, "tileMap") = HasKey(map_file, "tileMap")
        /\ Index(map_data, "tileMap") = Index(map_file, "tileMap")
        /\ pc # "panic"

(* C6: a palette file that yields no entry is rejected when the index is *)
(* built, with an "empty palette" error, before the image is read and    *)
(* before any nearest-color query.                                       *)
C6_EmptyPaletteRejected ==
    (pc \notin {"load_palette", "build_index"} /\ err # "Failed to read palette file"
       /\ palette_points = <<>>) =>
        /\ pc = "error"
        /\ err = "empty palette"
        /\ img = NoImage
        /\ mapping = <<>>

(* C7: a run that ends in a fatal error leaves the output path as it was. *)
C7_NoPartialOutput ==
    pc \in {"error", "panic"} => out_file = "untouched"

Written == {"tileMap", "tileArray", "tileAmounts", "width", "height", "worldLaws", "frozen_tiles"}

SiblingsOfListKept ==
    (HasKey(map_file, "worldLaws") /\ IsObj(map_file.obj["worldLaws"])) =>
        \A k \in DOMAIN map_file.obj["worldLaws"].obj \ {"list"} :
            /\ HasKey(Index(map_data, "worldLaws"), k)
            /\ map_data.obj["worldLaws"].obj[k] = map_file.obj["worldLaws"].obj[k]

(* C8: every part of the input document other than tileMap, tileArray,  *)
(* tileAmounts, width, height, worldLaws.list and (with a freeze map)   *)
(* frozen_tiles is the same in the output document.                     *)
C8_OtherPartsUnchanged ==
    pc = "done" =>
        /\ \A k \in DOMAIN map_file.obj \ Written :
              HasKey(map_data, k) /\ map_data.obj[k] = map_file.obj[k]
        /\ DOMAIN map_data.obj \ DOMAIN map_file.obj \subseteq Written
        /\ SiblingsOfListKept
        /\ (args.freeze_map = FALSE =>
              /\ HasKey(map_data, "frozen_tiles") = HasKey(map_file, "frozen_tiles")
              /\ Index(map_data, "frozen_tiles") = Index(map_file, "frozen_tiles"))

LawsAppended == pc \in {"freeze", "create", "write_all", "finish", "done"}

OldList ==
    IF HasLawList(map_file) THEN map_file.obj["worldLaws"].obj["list"].arr ELSE <<>>

HasSpace(l) == \E i \in 1..Len(l) : l[i] = " "

SpacePos(l) == CHOOSE i \in 1..Len(l) : l[i] = " " /\ \A j \in 1..(i - 1) : l[j] # " "

WithSpace(lines) == SelectSeq(lines, HasSpace)

IsTrueWord(t) ==
    /\ Len(t) = 4
    /\ t[1] \in {"t", "T"} /\ t[2] \in {"r", "R"} /\ t[3] \in {"u", "U"} /\ t[4] \in {"e", "E"}

ExpectedRecord(l) ==
    IF IsTrueWord(trim(SubSeq(l, SpacePos(l) + 1, Len(l))))
    THEN JObj(("name" :> JStr(trim(SubSeq(l, 1, SpacePos(l) - 1)))))
    ELSE JObj(("name" :> JStr(trim(SubSeq(l, 1, SpacePos(l) - 1))))
                @@ ("boolVal" :> JBool(FALSE)))

ListIs(list, old, lines) ==
    /\ Len(list) = Len(old) + Len(lines)
    /\ \A i \in 1..Len(old) : list[i] = old[i]
    /\ \A i \in 1..Len(lines) : list[Len(old) + i] = ExpectedRecord(lines[i])

(* C9: the records appended to worldLaws.list are, in file order and     *)
(* after all records that were in the list, one record per line that    *)
(* contains a space: only a name when the text after the first space is *)
(* "true" in any letter case, a name and boolVal false otherwise; the   *)
(* name is the text before the first space in the case it was written   *)
(* in (str::trim applied); the old records stay in place.               *)
C9_LawRecords ==
    LawsAppended =>
        /\ HasLawList(map_data)
        /\ ListIs(map_data.obj["worldLaws"].obj["list"].arr, OldList, WithSpace(laws))

(* A document that had a record in worldLaws.list was completed from a *)
(* file with "Fire TRUE", a line without a space and "Ice true x"      *)
C9_Witness ==
    /\ pc = "done"
    /\ OldList # <<>>
    /\ \E f \in {<<LawFireUpper, LawExtra>>, <<LawNoSpace, LawFireUpper>>} : laws = f
    /\ Len(map_data.obj["worldLaws"].obj["list"].arr) = Len(OldList) + Len(WithSpace(laws))

Dist(a, b) == IF a >= b THEN a - b ELSE b - a

NearestMultiples(d) ==
    LET ms == { Unit * q : q \in 0..(d \div Unit + 1) }
    IN  { m \in ms : \A m2 \in ms : Dist(m, d) <= Dist(m2, d) }

Normalized(n, d) ==
    /\ n % Unit = 0
    /\ n >= MinUnits * Unit
    /\ (\E m \in NearestMultiples(d) : m >= MinUnits * Unit) => n \in NearestMultiples(d)

(* C10: the image is normalized before its colors are extracted and      *)
(* before encoding; each normalized dimension is a multiple of 64, at    *)
(* least 128, and the multiple of 64 nearest to the original dimension   *)
(* whenever that multiple is at least 128; the document's width and      *)
(* height are the normalized dimensions divided by 64.                   *)
C10_NearestMultiple ==
    /\ (pc \in {"load_palette", "build_index", "input_path", "open_image", "resize"}
          => mapping = <<>> /\ tile_array = <<>>)
    /\ (pc \in {"quantize", "rewrite", "save_jpg", "read_map", "tile_map"} \/ TileMapUpdated)
          => Normalized(img.width, img.buf_w) /\ Normalized(img.height, img.buf_h)
    /\ pc = "done" =>
          /\ Index(map_data, "width") = JNum(img.width \div Unit)
          /\ Index(map_data, "height") = JNum(img.height \div Unit)

====
